---- MODULE Spec2Model ----
(***************************************************************************)
(* Model of predicto_api: the Alpaca order wrapper (AlpacaApiWrapper) and  *)
(* the batch runner of PredictoApiWrapper that drives it.                  *)
(*                                                                         *)
(* Prices are exact rationals <<numerator, denominator>> (denominator > 0, *)
(* lowest terms).  Python's None is the empty tuple <<>>, a present value  *)
(* x is the one-element tuple <<x>>.  Quantities reported by the brokerage *)
(* are decimal strings, modelled as sequences of characters.               *)
(***************************************************************************)
EXTENDS Integers, Sequences, FiniteSets, TLC

----------------------------------------------------------------------------
(* Optional values *)

None == <<>>

Some(x) == <<x>>

IsNone(x) == x = <<>>

Val(x) == x[1]

----------------------------------------------------------------------------
(* Exact rational arithmetic *)

Abs(n) == IF n < 0 THEN -n ELSE n

RECURSIVE GCD(_, _)
GCD(a, b) == IF b = 0 THEN a ELSE GCD(b, a % b)

Norm(n, d) ==
    LET s == IF d < 0 THEN -1 ELSE 1
        g == GCD(Abs(n), Abs(d))
    IN  <<(s * n) \div g, (s * d) \div g>>

R(n) == <<n, 1>>

RAdd(a, b) == Norm(a[1] * b[2] + b[1] * a[2], a[2] * b[2])

RSub(a, b) == Norm(a[1] * b[2] - b[1] * a[2], a[2] * b[2])

RMul(a, b) == Norm(a[1] * b[1], a[2] * b[2])

RDiv(a, b) == Norm(a[1] * b[2], a[2] * b[1])

RAbs(a) == <<Abs(a[1]), a[2]>>

RLt(a, b) == a[1] * b[2] < b[1] * a[2]

RLe(a, b) == a[1] * b[2] <= b[1] * a[2]

RMax(a, b) == IF RLt(a, b) THEN b ELSE a

RFloor(a) == a[1] \div a[2]

----------------------------------------------------------------------------
(* Decimal strings of the brokerage's JSON: str(n) and int(s) *)

Digits == <<"0", "1", "2", "3", "4", "5", "6", "7", "8", "9">>

DigitVal(c) == (CHOOSE i \in 1..10 : Digits[i] = c) - 1

RECURSIVE StrNat(_)
StrNat(n) == IF n < 10 THEN <<Digits[n + 1]>>
             ELSE Append(StrNat(n \div 10), Digits[(n % 10) + 1])

str(n) == IF n < 0 THEN <<"-">> \o StrNat(-n) ELSE StrNat(n)

RECURSIVE IntNat(_)
IntNat(s) == IF Len(s) = 0 THEN 0
             ELSE 10 * IntNat(SubSeq(s, 1, Len(s) - 1)) + DigitVal(s[Len(s)])

int(s) == IF Head(s) = "-" THEN -IntNat(Tail(s)) ELSE IntNat(s)

----------------------------------------------------------------------------
(* Enumerations and program constants *)

TradeActions == {"Noaction", "Buy", "Sell"}

TradeOrderTypes == {"Market", "Bracket", "TrailingStop"}

(* line 120: range(0, 5) *)
MaxHedgeAttempts == 5

ListOrdersLimit == 500

DayTradeWindowHours == 7

MinTrailingPercent == <<1, 10>>

----------------------------------------------------------------------------
(* validate_latest_price_and_stoploss, alpaca_api_wrapper.py:231-314 *)

(* lines 252-257: the checks that raise before the price is fetched *)
PreconditionError(action, startingPrice, targetSellPrice, stopLossPrice) ==
    IF action \notin {"Buy", "Sell"} THEN "wrong_action"
    ELSE IF action = "Buy" /\ (targetSellPrice <= startingPrice \/ stopLossPrice >= startingPrice)
        THEN "bad_price_order"
    ELSE IF action = "Sell" /\ (targetSellPrice >= startingPrice \/ stopLossPrice <= startingPrice)
        THEN "bad_price_order"
    ELSE "ok"

DerivedQuantity_ceiling(investmentAmount, latestPrice) ==
    -RFloor(RDiv(R(-investmentAmount), R(latestPrice)))

(* line 266: math.floor(investmentAmount / latestPrice) *)
DerivedQuantity(investmentAmount, latestPrice) ==
    RFloor(RDiv(R(investmentAmount), R(latestPrice)))

TargetAlreadyHit_strict(action, latestPrice, targetSellPrice) ==
    \/ action = "Buy" /\ latestPrice > targetSellPrice
    \/ action = "Sell" /\ latestPrice < targetSellPrice

(* lines 279, 282 *)
TargetAlreadyHit(action, latestPrice, targetSellPrice) ==
    \/ action = "Buy" /\ latestPrice >= targetSellPrice
    \/ action = "Sell" /\ latestPrice <= targetSellPrice

StopLossPercent_unsigned(startingPrice, stopLossPrice) ==
    RAbs(RDiv(R(stopLossPrice - startingPrice), R(startingPrice)))

(* line 290 *)
StopLossPercent(startingPrice, stopLossPrice) ==
    RDiv(R(stopLossPrice - startingPrice), R(startingPrice))

NewStopLossPrice_absolute(newStartingPrice, startingPrice, stopLossPercent) ==
    RAdd(R(newStartingPrice), RMul(R(startingPrice), stopLossPercent))

(* line 291 *)
NewStopLossPrice(newStartingPrice, startingPrice, stopLossPercent) ==
    RAdd(R(newStartingPrice), RMul(R(newStartingPrice), stopLossPercent))

(* line 296 *)
NewTargetSellPercent(targetSellPrice, newStartingPrice) ==
    RDiv(R(targetSellPrice - newStartingPrice), R(newStartingPrice))

RiskExceedsReward_signed(newTargetSellPercent, stopLossPercent) ==
    RLt(newTargetSellPercent, RAbs(stopLossPercent))

(* line 297 *)
RiskExceedsReward(newTargetSellPercent, stopLossPercent) ==
    RLt(RAbs(newTargetSellPercent), RAbs(stopLossPercent))

(* lines 302, 304 *)
PostconditionError(action, newStartingPrice, newTargetSellPrice, newStopLossPrice) ==
    \/ action = "Buy" /\ (newTargetSellPrice <= newStartingPrice
                          \/ RLe(R(newStartingPrice), newStopLossPrice))
    \/ action = "Sell" /\ (newTargetSellPrice >= newStartingPrice
                           \/ RLe(newStopLossPrice, R(newStartingPrice)))

Raised(exc) == [raised |-> TRUE, exc |-> exc]

(* the 5-tuple of lines 269-314, with the line it was returned at *)
Verdict(at, go, price, target, stop, quantity) ==
    [raised |-> FALSE, at |-> at, goAheadWithTrade |-> go,
     newStartingPrice |-> price, newTargetPrice |-> target,
     newStopLossPrice |-> stop, newQuantity |-> quantity]

(* bar: the brokerage's answer to get_latest_bar, None when the call fails *)
validate_latest_price_and_stoploss(action, qty, investmentAmount, startingPrice, targetSellPrice, stopLossPrice, bar) ==
    LET pre == PreconditionError(action, startingPrice, targetSellPrice, stopLossPrice)
    IN
    IF pre # "ok" THEN Raised(pre)
    ELSE IF IsNone(bar) THEN Raised("price_unavailable")
    ELSE IF IsNone(investmentAmount) THEN Raised("investment_required")
    ELSE
    LET latestPrice == Val(bar)
        q == IF IsNone(qty) THEN DerivedQuantity(Val(investmentAmount), latestPrice)
             ELSE Val(qty)
        stopLossPercent == StopLossPercent(startingPrice, stopLossPrice)
        newStopLossPrice == NewStopLossPrice(latestPrice, startingPrice, stopLossPercent)
        newTargetSellPercent == NewTargetSellPercent(targetSellPrice, latestPrice)
    IN
    IF IsNone(qty) /\ q = 0
        THEN Verdict("budget_too_small", FALSE, R(latestPrice), None, None, q)
    ELSE IF q * latestPrice > Val(investmentAmount)
        THEN Verdict("budget_exceeded", FALSE, R(latestPrice), None, None, q)
    ELSE IF TargetAlreadyHit(action, latestPrice, targetSellPrice)
        THEN Verdict("target_already_hit", FALSE, R(latestPrice), None, None, q)
    ELSE IF action = "Noaction"
        THEN Verdict("no_action", FALSE, R(latestPrice), None, None, q)
    ELSE IF RiskExceedsReward(newTargetSellPercent, stopLossPercent)
        THEN Verdict("risk_exceeds_reward", FALSE, R(latestPrice),
                     Some(R(targetSellPrice)), Some(newStopLossPrice), q)
    ELSE IF PostconditionError(action, latestPrice, targetSellPrice, newStopLossPrice)
        THEN Raised("postcondition")
    ELSE Verdict("accept", TRUE, R(latestPrice),
                 Some(R(targetSellPrice)), Some(newStopLossPrice), q)

----------------------------------------------------------------------------
(* Hedge builder helpers *)

get_and_validate_quantity_to_hedge_uncapped(filled_qty, position_qty) ==
    filled_qty

(* lines 354-362: filled_qty and position_qty are the brokerage's strings *)
get_and_validate_quantity_to_hedge(filled_qty, position_qty) ==
    LET openPositionQty == Abs(int(position_qty))
        originalOrderQuantity == int(filled_qty)
    IN  IF Abs(openPositionQty) < originalOrderQuantity
        THEN str(Abs(openPositionQty))
        ELSE filled_qty

TrailingPercent_unfloored(newStopLossPrice, newStartingPrice) ==
    RMul(RDiv(RAbs(RSub(newStopLossPrice, newStartingPrice)), newStartingPrice), R(100))

(* lines 100-102 *)
TrailingPercent(newStopLossPrice, newStartingPrice) ==
    RMax(RMul(RDiv(RAbs(RSub(newStopLossPrice, newStartingPrice)), newStartingPrice), R(100)),
         MinTrailingPercent)

----------------------------------------------------------------------------
(* Bounds of the model *)

MaxPartialFill == 1

MaxExternal == 1

MaxTime == 8

TickHours == 8

MaxQty == 2

Symbols == {"AAA", "BBB"}

LatestPrices == {100, 111}

----------------------------------------------------------------------------
(* State *)

VARIABLES
    orders,              \* brokerage: the orders, an order's id is its index
    position,            \* brokerage: signed share quantity held per symbol
    closed,              \* brokerage: closed orders, most recent first, as runs
    now,                 \* wall clock, in hours
    external,            \* number of position changes made outside the program
    pc,                  \* position of the running call
    fn,                  \* public method that was called
    caller,              \* "batch" or "direct"
    args,                \* arguments of the running call
    verdict,             \* result of validate_latest_price_and_stoploss
    trailing_percent,    \* local of submit_order, unbound until assigned
    order,               \* local of submit_order: id of the entry order
    trailing_stop_order, \* local of submit_order: id of the hedge order
    attempt,             \* hedge-attachment attempts that returned None
    parentOrder,         \* local of the hedge builder: the order as read
    openPosition,        \* local of the hedge builder: position qty as read
    safeguardQty,        \* local of the hedge builder
    result,              \* how the running call ended
    guardSaw,            \* history: what held when each guard was evaluated
    brokerage_calls,     \* history: the brokerage requests of the running call
    config,              \* parameters of submit_latest_trade_picks
    batch,               \* stocks_df.RelatedStock
    idx,                 \* loop counter of the batch runner
    symbols_submitted,   \* local of the batch runner
    report,              \* the end-of-batch line was printed
    userCalled,          \* user code has made its call
    vIn,                 \* inputs of a stand-alone validator call
    vOut                 \* its result

brokerVars == <<orders, position, closed, now, external>>

callVars == <<pc, fn, caller, args, verdict, trailing_percent, order,
              trailing_stop_order, attempt, parentOrder, openPosition,
              safeguardQty, result, guardSaw, brokerage_calls>>

batchVars == <<config, batch, idx, symbols_submitted, report, userCalled>>

validatorVars == <<vIn, vOut>>

vars == <<brokerVars, callVars, batchVars, validatorVars>>

----------------------------------------------------------------------------
(* The brokerage as the program sees it *)

OpenStatuses == {"new", "partially_filled"}

Direction(side) == IF side = "buy" THEN 1 ELSE -1

NewOrder(symbol, side, type, order_class, qty, trail_percent, client_order_id) ==
    [symbol |-> symbol, side |-> side, type |-> type, order_class |-> order_class,
     qty |-> qty, filled_qty |-> str(0), status |-> "new",
     trail_percent |-> trail_percent, client_order_id |-> client_order_id]

ClosedRun(symbol, status, count, at) ==
    [symbol |-> symbol, status |-> status, count |-> count, at |-> at]

RECURSIVE Take(_, _)
Take(runs, n) ==
    IF n <= 0 \/ Len(runs) = 0 THEN <<>>
    ELSE IF Head(runs).count >= n
        THEN <<[Head(runs) EXCEPT !.count = n]>>
    ELSE <<Head(runs)>> \o Take(Tail(runs), n - Head(runs).count)

RECURSIVE Count(_)
Count(runs) == IF Len(runs) = 0 THEN 0 ELSE Head(runs).count + Count(Tail(runs))

Since(runs, after) == SelectSeq(runs, LAMBDA r : r.at > after)

(* api.list_orders(status='closed', after=since_date, direction='desc', limit=...) *)
list_orders(after, limit) == Take(Since(closed, after), limit)

(* lines 398-400 *)
get_filled_orders_for_symbol_since(symbol, since_date) ==
    SelectSeq(list_orders(since_date, ListOrdersLimit),
              LAMBDA x : x.symbol = symbol /\ x.status = "filled")

(* what the guard is about: a filled order for the symbol inside the window *)
FilledInWindow(symbol) ==
    \E i \in 1..Len(closed) :
        /\ closed[i].symbol = symbol
        /\ closed[i].status = "filled"
        /\ closed[i].at > now - DayTradeWindowHours

(* lines 374-379: api.get_position raises when nothing is held *)
get_holding_positions(symbol, lookupFails) ==
    IF lookupFails \/ position[symbol] = 0 THEN None
    ELSE Some([symbol |-> symbol, qty |-> str(position[symbol])])

(* lines 331-341 for a parent order that exists; the None of lines 328-330  *)
(* is dereferenced at line 331, which HedgeGetOrder models                  *)
validate_parent_order_filled_and_match(parent, symbol) ==
    /\ parent.symbol = symbol
    /\ int(parent.filled_qty) # 0
    /\ parent.status = "filled"

(* an entry order of submit_order that is accepted and still working *)
OutstandingEntry(symbol) ==
    \E i \in 1..Len(orders) :
        /\ orders[i].symbol = symbol
        /\ orders[i].type = "market"
        /\ orders[i].status \in OpenStatuses

Exposed(symbol) == OutstandingEntry(symbol) \/ position[symbol] # 0

----------------------------------------------------------------------------
(* Call frames *)

Return(value) == [kind |-> "return", value |-> value]

(* "APIError": the brokerage refuses the request; "ConnectionError": the    *)
(* request fails on the way; the other names are raised by the program      *)
Raise(exc) == [kind |-> "raise", exc |-> exc]

Unbound == [bound |-> FALSE, value |-> None]

Bound(v) == [bound |-> TRUE, value |-> v]

NoGuard == [held |-> FALSE, traded |-> FALSE, exposed |-> FALSE, market_closed |-> FALSE]

NoArgs == [symbol |-> "AAA"]

FrameReset ==
    /\ pc' = "idle"
    /\ fn' = "none"
    /\ caller' = "none"
    /\ args' = NoArgs
    /\ verdict' = None
    /\ trailing_percent' = Unbound
    /\ order' = None
    /\ trailing_stop_order' = None
    /\ attempt' = 0
    /\ parentOrder' = None
    /\ openPosition' = None
    /\ safeguardQty' = None
    /\ result' = None
    /\ guardSaw' = NoGuard
    /\ brokerage_calls' = <<>>

(* the running call sends a request to the brokerage; a request is listed  *)
(* once, at its first use                                                   *)
Called(request) ==
    IF \E i \in 1..Len(brokerage_calls) : brokerage_calls[i] = request
    THEN brokerage_calls
    ELSE Append(brokerage_calls, request)

(* entering submit_order, line 44 *)
Enter_submit_order(a, who) ==
    /\ pc' = IF a.trade_order_type = "TrailingStop" THEN "so_clock" ELSE "so_position"
    /\ fn' = "submit_order"
    /\ caller' = who
    /\ args' = a
    /\ UNCHANGED <<brokerage_calls, verdict, trailing_percent, order, trailing_stop_order, attempt,
                   parentOrder, openPosition, safeguardQty, result, guardSaw>>

(* the call ends by returning or raising *)
Finish(res) ==
    /\ pc' = "done"
    /\ result' = res

SubmitArgs(type, action, symbol, qty, investmentAmount, prices, client_order_id) ==
    [trade_order_type |-> type, action |-> action, symbol |-> symbol, qty |-> qty,
     investmentAmount |-> investmentAmount,
     startingPrice |-> prices.StartingPrice,
     targetSellPrice |-> prices.TargetSellPrice,
     stopLossPrice |-> prices.TargetStopLossPrice,
     client_order_id |-> client_order_id]

----------------------------------------------------------------------------
(* submit_order, alpaca_api_wrapper.py:22-137, one action per brokerage call *)

CheckClock_ignored ==
    /\ pc = "so_clock"
    /\ brokerage_calls' = Called("get_clock")
    /\ \E answer \in {"open", "closed", "error"} :
        CASE answer = "error" ->
                /\ Finish(Raise("ConnectionError"))
                /\ UNCHANGED <<fn, caller, args, verdict, trailing_percent, order,
                               trailing_stop_order, attempt, parentOrder, openPosition,
                               safeguardQty, guardSaw>>
          [] answer = "closed" ->
                /\ pc' = "so_position"
                /\ guardSaw' = [guardSaw EXCEPT !.market_closed = TRUE]
                /\ UNCHANGED <<fn, caller, args, verdict, trailing_percent, order,
                               trailing_stop_order, attempt, parentOrder, openPosition,
                               safeguardQty, result>>
          [] answer = "open" ->
                /\ pc' = "so_position"
                /\ UNCHANGED <<fn, caller, args, verdict, trailing_percent, order,
                               trailing_stop_order, attempt, parentOrder, openPosition,
                               safeguardQty, result, guardSaw>>
    /\ UNCHANGED <<brokerVars, batchVars, validatorVars>>

(* lines 44-48 *)
CheckClock ==
    /\ pc = "so_clock"
    /\ brokerage_calls' = Called("get_clock")
    /\ \E answer \in {"open", "closed", "error"} :
        CASE answer = "error" ->
                /\ Finish(Raise("ConnectionError"))
                /\ UNCHANGED <<fn, caller, args, verdict, trailing_percent, order,
                               trailing_stop_order, attempt, parentOrder, openPosition,
                               safeguardQty, guardSaw>>
          [] answer = "closed" ->
                /\ Finish(Return(None))
                /\ guardSaw' = [guardSaw EXCEPT !.market_closed = TRUE]
                /\ UNCHANGED <<fn, caller, args, verdict, trailing_percent, order,
                               trailing_stop_order, attempt, parentOrder, openPosition,
                               safeguardQty>>
          [] answer = "open" ->
                /\ pc' = "so_position"
                /\ UNCHANGED <<fn, caller, args, verdict, trailing_percent, order,
                               trailing_stop_order, attempt, parentOrder, openPosition,
                               safeguardQty, result, guardSaw>>
    /\ UNCHANGED <<brokerVars, batchVars, validatorVars>>

(* lines 51-54 *)
CheckPosition ==
    /\ pc = "so_position"
    /\ brokerage_calls' = Called("get_position")
    /\ \E lookupFails \in BOOLEAN :
        LET held == get_holding_positions(args.symbol, lookupFails)
        IN  /\ guardSaw' = [guardSaw EXCEPT !.held = position[args.symbol] # 0]
            /\ IF ~IsNone(held)
               THEN Finish(Return(None))
               ELSE pc' = "so_history" /\ UNCHANGED result
    /\ UNCHANGED <<fn, caller, args, verdict, trailing_percent, order,
                   trailing_stop_order, attempt, parentOrder, openPosition, safeguardQty>>
    /\ UNCHANGED <<brokerVars, batchVars, validatorVars>>

(* lines 57-61 *)
CheckHistory ==
    /\ pc = "so_history"
    /\ brokerage_calls' = Called("list_orders")
    /\ \E listFails \in BOOLEAN :
        IF listFails
        THEN /\ Finish(Raise("ConnectionError"))
             /\ UNCHANGED guardSaw
        ELSE LET filledOrders ==
                    get_filled_orders_for_symbol_since(args.symbol, now - DayTradeWindowHours)
             IN  /\ guardSaw' = [guardSaw EXCEPT !.traded = FilledInWindow(args.symbol)]
                 /\ IF Count(filledOrders) > 0
                    THEN Finish(Return(None))
                    ELSE pc' = "so_validate" /\ UNCHANGED result
    /\ UNCHANGED <<fn, caller, args, verdict, trailing_percent, order,
                   trailing_stop_order, attempt, parentOrder, openPosition, safeguardQty>>
    /\ UNCHANGED <<brokerVars, batchVars, validatorVars>>

Validate_unchecked ==
    /\ pc = "so_validate"
    /\ brokerage_calls' =
           IF PreconditionError(args.action, args.startingPrice, args.targetSellPrice,
                                args.stopLossPrice) = "ok"
           THEN Called("get_latest_bar") ELSE brokerage_calls
    /\ \E bar \in {None} \cup {Some(p) : p \in LatestPrices} :
        LET v == validate_latest_price_and_stoploss(
                     args.action, args.qty, args.investmentAmount, args.startingPrice,
                     args.targetSellPrice, args.stopLossPrice, bar)
        IN  IF v.raised
            THEN Finish(Raise(v.exc)) /\ UNCHANGED verdict
            ELSE /\ verdict' = Some(v)
                 /\ pc' = "so_submit"
                 /\ UNCHANGED result
    /\ UNCHANGED <<fn, caller, args, trailing_percent, order, trailing_stop_order,
                   attempt, parentOrder, openPosition, safeguardQty, guardSaw>>
    /\ UNCHANGED <<brokerVars, batchVars, validatorVars>>

(* lines 64-67 *)
Validate ==
    /\ pc = "so_validate"
    /\ brokerage_calls' =
           IF PreconditionError(args.action, args.startingPrice, args.targetSellPrice,
                                args.stopLossPrice) = "ok"
           THEN Called("get_latest_bar") ELSE brokerage_calls
    /\ \E bar \in {None} \cup {Some(p) : p \in LatestPrices} :
        LET v == validate_latest_price_and_stoploss(
                     args.action, args.qty, args.investmentAmount, args.startingPrice,
                     args.targetSellPrice, args.stopLossPrice, bar)
        IN  IF v.raised
            THEN Finish(Raise(v.exc)) /\ UNCHANGED verdict
            ELSE /\ verdict' = Some(v)
                 /\ IF v.goAheadWithTrade
                    THEN pc' = "so_submit" /\ UNCHANGED result
                    ELSE Finish(Return(None))
    /\ UNCHANGED <<fn, caller, args, trailing_percent, order, trailing_stop_order,
                   attempt, parentOrder, openPosition, safeguardQty, guardSaw>>
    /\ UNCHANGED <<brokerVars, batchVars, validatorVars>>

(* lines 70-114: the entry order; the brokerage refuses a quantity of zero *)
SubmitEntry ==
    /\ pc = "so_submit"
    /\ brokerage_calls' = Called("submit_order")
    /\ \E accepted \in BOOLEAN :
        LET v == Val(verdict)
            type == args.trade_order_type
            tp == CASE type = "Market" -> Unbound
                    [] type = "Bracket" -> Bound(None)
                    [] type = "TrailingStop" ->
                        Bound(Some(TrailingPercent(Val(v.newStopLossPrice),
                                                   v.newStartingPrice)))
            entry == NewOrder(args.symbol,
                              IF args.action = "Buy" THEN "buy" ELSE "sell",
                              "market",
                              IF type = "Bracket" THEN "bracket" ELSE "simple",
                              str(v.newQuantity), None, Some(args.client_order_id))
        IN  /\ trailing_percent' = tp
            /\ IF accepted /\ v.newQuantity > 0
               THEN /\ orders' = Append(orders, entry)
                    /\ order' = Some(Len(orders) + 1)
                    /\ guardSaw' = [guardSaw EXCEPT !.exposed = Exposed(args.symbol)]
                    /\ pc' = IF type = "TrailingStop" THEN "hedge_get_order" ELSE "so_return"
                    /\ UNCHANGED result
               ELSE /\ Finish(Raise("APIError"))
                    /\ UNCHANGED <<orders, order, guardSaw>>
    /\ UNCHANGED <<fn, caller, args, verdict, trailing_stop_order, attempt,
                   parentOrder, openPosition, safeguardQty>>
    /\ UNCHANGED <<position, closed, now, external, batchVars, validatorVars>>

HedgeGetOrder_sixth_attempt ==
    /\ pc = "hedge_get_order"
    /\ brokerage_calls' = Called("get_order")
    /\ \E lookupFails \in BOOLEAN, missing \in {"APIError", "AttributeError"} :
        LET id == IF fn = "submit_order" THEN Val(order) ELSE args.parentOrderId
        IN  IF lookupFails \/ id \notin 1..Len(orders)
            THEN /\ Finish(Raise(IF lookupFails THEN "ConnectionError" ELSE missing))
                 /\ UNCHANGED <<parentOrder, attempt>>
            ELSE IF validate_parent_order_filled_and_match(orders[id], args.symbol)
            THEN /\ parentOrder' = Some(orders[id])
                 /\ pc' = "hedge_get_position"
                 /\ UNCHANGED <<attempt, result>>
            ELSE IF fn = "submit_order"
            THEN \* the attempt returned None: sleep, then retry or give up
                 /\ parentOrder' = None
                 /\ attempt' = attempt + 1
                 /\ pc' = IF attempt < MaxHedgeAttempts
                          THEN "hedge_get_order" ELSE "so_cancel"
                 /\ UNCHANGED result
            ELSE /\ parentOrder' = None
                 /\ Finish(Return(None))
                 /\ UNCHANGED attempt
    /\ UNCHANGED <<fn, caller, args, verdict, trailing_percent, order,
                   trailing_stop_order, openPosition, safeguardQty, guardSaw>>
    /\ UNCHANGED <<brokerVars, batchVars, validatorVars>>

(* api.get_order and validate_parent_order_filled_and_match:                *)
(* lines 154-160 inside the retry loop of lines 120-126, and lines 197-203. *)
(* For an id the brokerage does not know, api.get_order raises APIError, or *)
(* answers None and line 331 raises AttributeError on parentOrder.symbol    *)
HedgeGetOrder ==
    /\ pc = "hedge_get_order"
    /\ brokerage_calls' = Called("get_order")
    /\ \E lookupFails \in BOOLEAN, missing \in {"APIError", "AttributeError"} :
        LET id == IF fn = "submit_order" THEN Val(order) ELSE args.parentOrderId
        IN  IF lookupFails \/ id \notin 1..Len(orders)
            THEN /\ Finish(Raise(IF lookupFails THEN "ConnectionError" ELSE missing))
                 /\ UNCHANGED <<parentOrder, attempt>>
            ELSE IF validate_parent_order_filled_and_match(orders[id], args.symbol)
            THEN /\ parentOrder' = Some(orders[id])
                 /\ pc' = "hedge_get_position"
                 /\ UNCHANGED <<attempt, result>>
            ELSE IF fn = "submit_order"
            THEN \* the attempt returned None: sleep, then retry or give up
                 /\ parentOrder' = None
                 /\ attempt' = attempt + 1
                 /\ pc' = IF attempt + 1 < MaxHedgeAttempts
                          THEN "hedge_get_order" ELSE "so_cancel"
                 /\ UNCHANGED result
            ELSE /\ parentOrder' = None
                 /\ Finish(Return(None))
                 /\ UNCHANGED attempt
    /\ UNCHANGED <<fn, caller, args, verdict, trailing_percent, order,
                   trailing_stop_order, openPosition, safeguardQty, guardSaw>>
    /\ UNCHANGED <<brokerVars, batchVars, validatorVars>>

(* get_and_validate_quantity_to_hedge, lines 353-362 *)
HedgeGetPosition ==
    /\ pc = "hedge_get_position"
    /\ brokerage_calls' = Called("get_position")
    /\ \E lookupFails \in BOOLEAN :
        LET parent == Val(parentOrder)
        IN  IF lookupFails \/ position[parent.symbol] = 0
            THEN /\ Finish(Raise(IF lookupFails THEN "ConnectionError" ELSE "APIError"))
                 /\ UNCHANGED <<openPosition, safeguardQty>>
            ELSE /\ openPosition' = Some(str(position[parent.symbol]))
                 /\ safeguardQty' = Some(get_and_validate_quantity_to_hedge(
                                            parent.filled_qty, str(position[parent.symbol])))
                 /\ pc' = "hedge_submit"
                 /\ UNCHANGED result
    /\ UNCHANGED <<fn, caller, args, verdict, trailing_percent, order,
                   trailing_stop_order, attempt, parentOrder, guardSaw>>
    /\ UNCHANGED <<brokerVars, batchVars, validatorVars>>

HedgeSubmit_same_side ==
    /\ pc = "hedge_submit"
    /\ brokerage_calls' = Called("submit_order")
    /\ \E accepted \in BOOLEAN :
        LET parent == Val(parentOrder)
            newSide == parent.side
            hedge == IF fn = "submit_order"
                     THEN NewOrder(parent.symbol, newSide, "trailing_stop", "simple",
                                   Val(safeguardQty), trailing_percent.value, None)
                     ELSE NewOrder(parent.symbol, newSide, "limit", "oco",
                                   Val(safeguardQty), None, Some(args.client_order_id))
        IN  IF accepted /\ int(Val(safeguardQty)) > 0
            THEN /\ orders' = Append(orders, hedge)
                 /\ IF fn = "submit_order"
                    THEN /\ trailing_stop_order' = Some(Len(orders) + 1)
                         /\ pc' = "so_return"
                         /\ UNCHANGED result
                    ELSE /\ Finish(Return(Some(Len(orders) + 1)))
                         /\ UNCHANGED trailing_stop_order
            ELSE /\ Finish(Raise("APIError"))
                 /\ UNCHANGED <<orders, trailing_stop_order>>
    /\ UNCHANGED <<fn, caller, args, verdict, trailing_percent, order, attempt,
                   parentOrder, openPosition, safeguardQty, guardSaw>>
    /\ UNCHANGED <<position, closed, now, external, batchVars, validatorVars>>

(* lines 162-179 and 205-229: the hedge order *)
HedgeSubmit ==
    /\ pc = "hedge_submit"
    /\ brokerage_calls' = Called("submit_order")
    /\ \E accepted \in BOOLEAN :
        LET parent == Val(parentOrder)
            newSide == IF parent.side = "buy" THEN "sell" ELSE "buy"
            hedge == IF fn = "submit_order"
                     THEN NewOrder(parent.symbol, newSide, "trailing_stop", "simple",
                                   Val(safeguardQty), trailing_percent.value, None)
                     ELSE NewOrder(parent.symbol, newSide, "limit", "oco",
                                   Val(safeguardQty), None, Some(args.client_order_id))
        IN  IF accepted /\ int(Val(safeguardQty)) > 0
            THEN /\ orders' = Append(orders, hedge)
                 /\ IF fn = "submit_order"
                    THEN /\ trailing_stop_order' = Some(Len(orders) + 1)
                         /\ pc' = "so_return"
                         /\ UNCHANGED result
                    ELSE /\ Finish(Return(Some(Len(orders) + 1)))
                         /\ UNCHANGED trailing_stop_order
            ELSE /\ Finish(Raise("APIError"))
                 /\ UNCHANGED <<orders, trailing_stop_order>>
    /\ UNCHANGED <<fn, caller, args, verdict, trailing_percent, order, attempt,
                   parentOrder, openPosition, safeguardQty, guardSaw>>
    /\ UNCHANGED <<position, closed, now, external, batchVars, validatorVars>>

(* lines 128-132: the brokerage refuses to cancel an order that is closed *)
CancelEntry ==
    /\ pc = "so_cancel"
    /\ brokerage_calls' = Called("cancel_order")
    /\ \E cancelFails \in BOOLEAN :
        LET id == Val(order)
        IN  IF cancelFails \/ orders[id].status \notin OpenStatuses
            THEN /\ Finish(Raise(IF cancelFails THEN "ConnectionError" ELSE "APIError"))
                 /\ UNCHANGED <<orders, closed>>
            ELSE /\ orders' = [orders EXCEPT ![id].status = "canceled"]
                 /\ closed' = <<ClosedRun(orders[id].symbol, "canceled", 1, now)>> \o closed
                 /\ pc' = "so_return"
                 /\ UNCHANGED result
    /\ UNCHANGED <<fn, caller, args, verdict, trailing_percent, order,
                   trailing_stop_order, attempt, parentOrder, openPosition,
                   safeguardQty, guardSaw>>
    /\ UNCHANGED <<position, now, external, batchVars, validatorVars>>

(* lines 134-137: trailing_percent is assigned on two of the three branches *)
ReturnResult ==
    /\ pc = "so_return"
    /\ UNCHANGED brokerage_calls
    /\ LET v == Val(verdict)
       IN  IF ~trailing_percent.bound
           THEN Finish(Raise("UnboundLocalError"))
           ELSE Finish(Return(Some(
                    [order |-> Val(order),
                     newStartingPrice |-> v.newStartingPrice,
                     newTargetPrice |-> v.newTargetPrice,
                     newStopLossPrice |-> v.newStopLossPrice,
                     trailing_percent |-> trailing_percent.value,
                     newQuantity |-> v.newQuantity])))
    /\ UNCHANGED <<fn, caller, args, verdict, trailing_percent, order,
                   trailing_stop_order, attempt, parentOrder, openPosition,
                   safeguardQty, guardSaw>>
    /\ UNCHANGED <<brokerVars, batchVars, validatorVars>>

----------------------------------------------------------------------------
(* The batch runner, predicto_api_wrapper.py:161-267 *)

TradeActionName(i) == CASE i = 0 -> "Noaction" [] i = 1 -> "Buy" [] i = 2 -> "Sell"

(* lines 162-168: the default parameters, with the order type left open *)
BatchConfig(type) ==
    [abs_change_pct_threshold |-> <<1, 50>>,
     actions |-> {1, 2},
     average_uncertainty |-> <<3, 20>>,
     model_avg_roi |-> <<0, 1>>,
     investment_per_trade |-> 1000,
     trade_order_type |-> type]

TradePick(action, prices, uncertainty, roi) ==
    [TradeAction |-> action,
     StartingPrice |-> prices.StartingPrice,
     TargetSellPrice |-> prices.TargetSellPrice,
     TargetStopLossPrice |-> prices.TargetStopLossPrice,
     AvgUncertainty |-> uncertainty,
     AverageROI |-> roi]

(* what get_trade_pick may answer *)
TradePicks ==
    { TradePick(1, [StartingPrice |-> 100, TargetSellPrice |-> 110, TargetStopLossPrice |-> 95],
                <<1, 10>>, <<1, 20>>),
      TradePick(1, [StartingPrice |-> 2000, TargetSellPrice |-> 2100, TargetStopLossPrice |-> 1999],
                <<1, 10>>, <<0, 1>>),
      TradePick(1, [StartingPrice |-> 100, TargetSellPrice |-> 101, TargetStopLossPrice |-> 95],
                <<1, 10>>, <<1, 20>>),
      TradePick(1, [StartingPrice |-> 100, TargetSellPrice |-> 110, TargetStopLossPrice |-> 95],
                <<1, 5>>, <<1, 20>>),
      TradePick(2, [StartingPrice |-> 50, TargetSellPrice |-> 45, TargetStopLossPrice |-> 53],
                <<1, 10>>, <<-1, 100>>),
      TradePick(0, [StartingPrice |-> 100, TargetSellPrice |-> 110, TargetStopLossPrice |-> 95],
                <<1, 10>>, <<1, 20>>) }

(* line 215 *)
ChangePct(tp_json) ==
    RDiv(R(tp_json.TargetSellPrice - tp_json.StartingPrice), R(tp_json.StartingPrice))

(* lines 218-221 *)
MatchesFilters(tp_json, cfg) ==
    /\ RLe(cfg.abs_change_pct_threshold, RAbs(ChangePct(tp_json)))
    /\ tp_json.TradeAction \in cfg.actions
    /\ RLe(tp_json.AvgUncertainty, cfg.average_uncertainty)
    /\ RLe(cfg.model_avg_roi, tp_json.AverageROI)

(* lines 229-233 *)
ClientOrderId(symbol, action) == <<"Predicto", symbol, action, "bracket">>

(* lines 203-213, 259-265: an iteration that does not reach submit_order *)
BatchSkip ==
    /\ pc = "idle"
    /\ ~report
    /\ idx < Len(batch)
    /\ \/ \E answer \in {"error", "none"} : TRUE
       \/ \E tp_json \in TradePicks : ~MatchesFilters(tp_json, config)
    /\ idx' = idx + 1
    /\ UNCHANGED <<config, batch, symbols_submitted, report, userCalled>>
    /\ UNCHANGED <<brokerVars, callVars, validatorVars>>

(* lines 203-248: an iteration whose pick matches the filters *)
BatchSubmit ==
    /\ pc = "idle"
    /\ ~report
    /\ idx < Len(batch)
    /\ \E tp_json \in TradePicks :
        /\ MatchesFilters(tp_json, config)
        /\ Enter_submit_order(
               SubmitArgs(config.trade_order_type, TradeActionName(tp_json.TradeAction),
                          batch[idx + 1], None, Some(config.investment_per_trade),
                          tp_json,
                          ClientOrderId(batch[idx + 1], TradeActionName(tp_json.TradeAction))),
               "batch")
    /\ idx' = idx + 1
    /\ UNCHANGED <<config, batch, symbols_submitted, report, userCalled>>
    /\ UNCHANGED <<brokerVars, validatorVars>>

(* lines 252-256 and 264-265 *)
BatchResume ==
    /\ pc = "done"
    /\ caller = "batch"
    /\ symbols_submitted' =
           IF result.kind = "return" /\ ~IsNone(result.value)
           THEN Append(symbols_submitted, args.symbol)
           ELSE symbols_submitted
    /\ FrameReset
    /\ UNCHANGED <<config, batch, idx, report, userCalled>>
    /\ UNCHANGED <<brokerVars, validatorVars>>

(* line 267 *)
BatchReport ==
    /\ pc = "idle"
    /\ ~report
    /\ idx = Len(batch)
    /\ report' = TRUE
    /\ UNCHANGED <<config, batch, idx, symbols_submitted, userCalled>>
    /\ UNCHANGED <<brokerVars, callVars, validatorVars>>

----------------------------------------------------------------------------
(* Calls of the public methods by user code *)

(* the trades user code asks for: (action, qty, investmentAmount, prices) *)
DirectTrades ==
    LET long == [StartingPrice |-> 100, TargetSellPrice |-> 110, TargetStopLossPrice |-> 95]
        short == [StartingPrice |-> 50, TargetSellPrice |-> 45, TargetStopLossPrice |-> 53]
    IN  { <<"Buy", None, Some(5000), long>>,
          <<"Sell", Some(MaxQty), Some(5000), short>>,
          <<"Sell", Some(0), Some(5000), short>>,
          <<"Noaction", None, Some(5000), long>>,
          <<"Buy", None, None, long>>,
          <<"Buy", None, Some(5000), short>> }

DirectSymbols == {"AAA"}

DirectTypes == {"TrailingStop"}

(* submit_order called directly, lines 22-42 *)
DirectSubmitOrder ==
    /\ pc = "idle"
    /\ ~userCalled
    /\ \E type \in DirectTypes, symbol \in DirectSymbols, t \in DirectTrades :
        Enter_submit_order(
            SubmitArgs(type, t[1], symbol, t[2], t[3], t[4], <<"user", symbol>>),
            "direct")
    /\ userCalled' = TRUE
    /\ UNCHANGED <<config, batch, idx, symbols_submitted, report>>
    /\ UNCHANGED <<brokerVars, validatorVars>>

(* open_oco_position called directly, lines 181-196 *)
DirectOpenOco ==
    /\ pc = "idle"
    /\ ~userCalled
    /\ \E id \in 1..(Len(orders) + 1), symbol \in Symbols :
        /\ args' = [parentOrderId |-> id, symbol |-> symbol,
                    targetSellPrice |-> 110, stopLossPrice |-> 95,
                    client_order_id |-> <<"user", symbol, "oco">>]
        /\ pc' = "hedge_get_order"
        /\ fn' = "open_oco_position"
        /\ caller' = "direct"
    /\ userCalled' = TRUE
    /\ UNCHANGED <<brokerage_calls, verdict, trailing_percent, order, trailing_stop_order, attempt,
                   parentOrder, openPosition, safeguardQty, result, guardSaw>>
    /\ UNCHANGED <<config, batch, idx, symbols_submitted, report>>
    /\ UNCHANGED <<brokerVars, validatorVars>>

(* the direct caller gets the result back *)
DirectResume ==
    /\ pc = "done"
    /\ caller = "direct"
    /\ FrameReset
    /\ UNCHANGED <<batchVars, brokerVars, validatorVars>>

----------------------------------------------------------------------------
(* The brokerage and the world around the program *)

(* one share of a working market order fills *)
FillPartial ==
    /\ \E id \in 1..Len(orders) :
        LET o == orders[id]
            filled == int(o.filled_qty)
        IN  /\ o.type = "market"
            /\ o.status \in OpenStatuses
            /\ filled < MaxPartialFill
            /\ filled + 1 < int(o.qty)
            /\ orders' = [orders EXCEPT ![id].filled_qty = str(filled + 1),
                                        ![id].status = "partially_filled"]
            /\ position' = [position EXCEPT ![o.symbol] = @ + Direction(o.side)]
    /\ UNCHANGED <<closed, now, external>>
    /\ UNCHANGED <<callVars, batchVars, validatorVars>>

(* a working market order fills completely *)
FillFull ==
    /\ \E id \in 1..Len(orders) :
        LET o == orders[id]
            rest == int(o.qty) - int(o.filled_qty)
        IN  /\ o.type = "market"
            /\ o.status \in OpenStatuses
            /\ orders' = [orders EXCEPT ![id].filled_qty = o.qty,
                                        ![id].status = "filled"]
            /\ position' = [position EXCEPT ![o.symbol] = @ + Direction(o.side) * rest]
            /\ closed' = <<ClosedRun(o.symbol, "filled", 1, now)>> \o closed
    /\ UNCHANGED <<now, external>>
    /\ UNCHANGED <<callVars, batchVars, validatorVars>>

(* somebody else trades the symbol: one share less is held, or none *)
ExternalChange ==
    /\ external < MaxExternal
    /\ \E symbol \in Symbols : \E shares \in {1, Abs(position[symbol])} :
        /\ position[symbol] # 0
        /\ position' = [position EXCEPT ![symbol] =
                           IF @ > 0 THEN @ - shares ELSE @ + shares]
        /\ closed' = <<ClosedRun(symbol, "filled", 1, now)>> \o closed
    /\ external' = external + 1
    /\ UNCHANGED <<orders, now>>
    /\ UNCHANGED <<callVars, batchVars, validatorVars>>

(* time passes between calls; a call lasts a minute at most *)
Tick ==
    /\ pc = "idle"
    /\ now + TickHours <= MaxTime
    /\ now' = now + TickHours
    /\ UNCHANGED <<orders, position, closed, external>>
    /\ UNCHANGED <<callVars, batchVars, validatorVars>>

----------------------------------------------------------------------------
(* The stand-alone validator call *)

ValidatorPrices == {45, 48, 50, 53, 95, 100, 105, 110, 111}

ValidatorQuantities == {None} \cup {Some(q) : q \in 0..MaxQty}

ValidatorAmounts == {None, Some(100), Some(1000)}

ValidatorInputs ==
    [action : TradeActions, qty : ValidatorQuantities, investmentAmount : ValidatorAmounts,
     startingPrice : ValidatorPrices, targetSellPrice : ValidatorPrices,
     stopLossPrice : ValidatorPrices,
     bar : {None} \cup {Some(p) : p \in ValidatorPrices}]

ValidateCall ==
    /\ ~IsNone(vIn)
    /\ IsNone(vOut)
    /\ vOut' = Some(validate_latest_price_and_stoploss(
                        Val(vIn).action, Val(vIn).qty, Val(vIn).investmentAmount,
                        Val(vIn).startingPrice, Val(vIn).targetSellPrice,
                        Val(vIn).stopLossPrice, Val(vIn).bar))
    /\ UNCHANGED vIn
    /\ UNCHANGED <<brokerVars, callVars, batchVars>>

----------------------------------------------------------------------------
(* Specifications *)

InitialHistories ==
    { <<>>,
      <<ClosedRun("BBB", "canceled", ListOrdersLimit - 1, 0), ClosedRun("AAA", "filled", 1, 0)>>,
      <<ClosedRun("BBB", "canceled", ListOrdersLimit, 0), ClosedRun("AAA", "filled", 1, 0)>> }

InitFrame ==
    /\ pc = "idle"
    /\ fn = "none"
    /\ caller = "none"
    /\ args = NoArgs
    /\ verdict = None
    /\ trailing_percent = Unbound
    /\ order = None
    /\ trailing_stop_order = None
    /\ attempt = 0
    /\ parentOrder = None
    /\ openPosition = None
    /\ safeguardQty = None
    /\ result = None
    /\ guardSaw = NoGuard
    /\ brokerage_calls = <<>>

InitBroker(history) ==
    /\ orders = <<>>
    /\ position = [s \in Symbols |-> 0]
    /\ closed = history
    /\ now = 0
    /\ external = 0

InitBatch(type) ==
    /\ config = BatchConfig(type)
    /\ batch = <<"AAA">>
    /\ idx = 0
    /\ symbols_submitted = <<>>
    /\ report = FALSE
    /\ userCalled = FALSE

Init ==
    /\ \E history \in InitialHistories : InitBroker(history)
    /\ InitFrame
    /\ \E type \in TradeOrderTypes : InitBatch(type)
    /\ vIn = None
    /\ vOut = None

Next ==
    \/ BatchSkip
    \/ BatchSubmit
    \/ BatchResume
    \/ BatchReport
    \/ DirectSubmitOrder
    \/ DirectOpenOco
    \/ DirectResume
    \/ CheckClock
    \/ CheckPosition
    \/ CheckHistory
    \/ Validate
    \/ SubmitEntry
    \/ HedgeGetOrder
    \/ HedgeGetPosition
    \/ HedgeSubmit
    \/ CancelEntry
    \/ ReturnResult
    \/ FillPartial
    \/ FillFull
    \/ ExternalChange
    \/ Tick

Spec == Init /\ [][Next]_vars

InitValidate ==
    /\ InitBroker(<<>>)
    /\ InitFrame
    /\ InitBatch("Bracket")
    /\ vIn \in {Some(i) : i \in ValidatorInputs}
    /\ vOut = None

NextValidate == ValidateCall

SpecValidate == InitValidate /\ [][NextValidate]_vars

----------------------------------------------------------------------------
(* submit_my_latest_trade_picks, predicto_api_wrapper.py:269-339 *)

(* a record of get_my_trade_picks; a field the record lacks is None *)
MyTradePick(symbol, pick) == [Symbol |-> symbol, pick |-> pick]

(* what get_my_trade_picks may answer *)
MyTradePickArrays ==
    LET long == [StartingPrice |-> 100, TargetSellPrice |-> 110, TargetStopLossPrice |-> 95]
        buy == Some(TradePick(1, long, <<1, 10>>, <<1, 20>>))
        noaction == Some(TradePick(0, long, <<1, 10>>, <<1, 20>>))
        uncertain == Some(TradePick(1, long, <<1, 2>>, <<1, 20>>))
    IN  { <<MyTradePick(Some("AAA"), buy), MyTradePick(Some("BBB"), buy)>>,
          <<MyTradePick(Some("AAA"), uncertain)>>,
          <<MyTradePick(Some("AAA"), noaction), MyTradePick(Some("BBB"), buy)>>,
          <<MyTradePick(Some("AAA"), None), MyTradePick(Some("BBB"), buy)>>,
          <<MyTradePick(None, buy), MyTradePick(Some("BBB"), buy)>>,
          <<>> }

(* lines 290-291: the record has no 'Symbol', the KeyError is raised before *)
(* the try of line 295 and leaves submit_my_latest_trade_picks              *)
MyBatchAbort ==
    /\ pc = "idle"
    /\ ~report
    /\ idx < Len(batch)
    /\ IsNone(batch[idx + 1].Symbol)
    /\ pc' = "done"
    /\ fn' = "submit_my_latest_trade_picks"
    /\ caller' = "direct"
    /\ result' = Raise("KeyError")
    /\ UNCHANGED <<args, verdict, trailing_percent, order, trailing_stop_order, attempt,
                   parentOrder, openPosition, safeguardQty, guardSaw, brokerage_calls>>
    /\ UNCHANGED <<brokerVars, batchVars, validatorVars>>

(* lines 290-296, 336-337: the record lacks a price, the KeyError of line   *)
(* 296 is caught                                                            *)
MyBatchSkip ==
    /\ pc = "idle"
    /\ ~report
    /\ idx < Len(batch)
    /\ ~IsNone(batch[idx + 1].Symbol)
    /\ IsNone(batch[idx + 1].pick)
    /\ idx' = idx + 1
    /\ UNCHANGED <<config, batch, symbols_submitted, report, userCalled>>
    /\ UNCHANGED <<brokerVars, callVars, validatorVars>>

(* lines 290-323 *)
MyBatchSubmit ==
    /\ pc = "idle"
    /\ ~report
    /\ idx < Len(batch)
    /\ ~IsNone(batch[idx + 1].Symbol)
    /\ ~IsNone(batch[idx + 1].pick)
    /\ LET symbol == Val(batch[idx + 1].Symbol)
           tp_json == Val(batch[idx + 1].pick)
       IN  Enter_submit_order(
               SubmitArgs(config.trade_order_type, TradeActionName(tp_json.TradeAction),
                          symbol, None, Some(config.investment_per_trade), tp_json,
                          ClientOrderId(symbol, TradeActionName(tp_json.TradeAction))),
               "my_batch")
    /\ idx' = idx + 1
    /\ UNCHANGED <<config, batch, symbols_submitted, report, userCalled>>
    /\ UNCHANGED <<brokerVars, validatorVars>>

(* lines 327-331 and 336-337 *)
MyBatchResume ==
    /\ pc = "done"
    /\ caller = "my_batch"
    /\ symbols_submitted' =
           IF result.kind = "return" /\ ~IsNone(result.value)
           THEN Append(symbols_submitted, args.symbol)
           ELSE symbols_submitted
    /\ FrameReset
    /\ UNCHANGED <<config, batch, idx, report, userCalled>>
    /\ UNCHANGED <<brokerVars, validatorVars>>

(* line 339 *)
MyBatchReport ==
    /\ pc = "idle"
    /\ ~report
    /\ idx = Len(batch)
    /\ report' = TRUE
    /\ UNCHANGED <<config, batch, idx, symbols_submitted, userCalled>>
    /\ UNCHANGED <<brokerVars, callVars, validatorVars>>

InitMyPicks ==
    /\ InitBroker(<<>>)
    /\ InitFrame
    /\ \E type \in TradeOrderTypes :
        /\ config = [investment_per_trade |-> 1000, trade_order_type |-> type]
    /\ batch \in MyTradePickArrays
    /\ idx = 0
    /\ symbols_submitted = <<>>
    /\ report = FALSE
    /\ userCalled = FALSE
    /\ vIn = None
    /\ vOut = None

NextMyPicks ==
    \/ MyBatchAbort
    \/ MyBatchSkip
    \/ MyBatchSubmit
    \/ MyBatchResume
    \/ MyBatchReport
    \/ CheckClock
    \/ CheckPosition
    \/ CheckHistory
    \/ Validate
    \/ SubmitEntry
    \/ HedgeGetOrder
    \/ HedgeGetPosition
    \/ HedgeSubmit
    \/ CancelEntry
    \/ ReturnResult
    \/ FillPartial
    \/ FillFull
    \/ ExternalChange
    \/ Tick

SpecMyPicks == InitMyPicks /\ [][NextMyPicks]_vars

----------------------------------------------------------------------------
(* Properties of the TrailingStop path and of the guards *)

(* the retry loop of lines 120-126 ran out: five attempts returned None *)
Exhausted ==
    /\ fn = "submit_order"
    /\ args.trade_order_type = "TrailingStop"
    /\ ~IsNone(order)
    /\ attempt = MaxHedgeAttempts

(* the cancel request of line 131 was lost on the way to the brokerage *)
CancelLost == result.kind = "raise" /\ result.exc = "ConnectionError"

(* C1: when a TrailingStop call ends after its entry order was accepted and *)
(* all 5 hedge attempts failed, and the cancel request reached the          *)
(* brokerage, no unhedged position remains: nothing of the entry order was  *)
(* filled, or nothing is held in the symbol, whatever the brokerage filled  *)
(* between the polls and the cancel.                                        *)
C1_NoUnhedgedPositionAfterExhaustion ==
    (pc = "done" /\ Exhausted /\ ~CancelLost) =>
        \/ int(orders[Val(order)].filled_qty) = 0
        \/ position[args.symbol] = 0

(* C2: when all 5 hedge attempts failed, submit_order does not end with the *)
(* success result that carries the order (which the batch runner records as *)
(* submitted); it ends with None or an error.                               *)
C2_ExhaustionSignalsFailure ==
    (pc = "done" /\ Exhausted) =>
        ~(result.kind = "return" /\ ~IsNone(result.value))

(* C3: if an order for the symbol was filled within the 7 hours before the  *)
(* day-trade guard runs, submit_order submits no entry order, however many  *)
(* closed orders of other symbols lie in the same window.                   *)
C3_DayTradeGuardAlwaysRejects ==
    guardSaw.traded => IsNone(order)

(* C4: no entry order is submitted for a symbol while an earlier entry      *)
(* order for it is still working or a position in it is open.               *)
C4_OneExposurePerSymbol ==
    ~IsNone(order) => ~guardSaw.exposed

(* C5: if a position is open for the symbol when the already-holding guard  *)
(* runs, submit_order submits no entry order, also when the lookup fails.   *)
C5_HoldingGuardAlwaysRejects ==
    guardSaw.held => IsNone(order)

----------------------------------------------------------------------------
(* Properties of the validator, checked under SpecValidate *)

TargetReached(i) ==
    /\ ~IsNone(i.bar)
    /\ \/ i.action = "Buy" /\ Val(i.bar) >= i.targetSellPrice
       \/ i.action = "Sell" /\ Val(i.bar) <= i.targetSellPrice

Accepted(o) == ~o.raised /\ o.goAheadWithTrade

(* C6: a Buy whose live price is at or above the target, and a Sell whose   *)
(* live price is at or below it, is never accepted, for every quantity and  *)
(* budget: the call raises on a violated precondition or returns a          *)
(* rejection made at the budget checks or at the target check.              *)
C6_TargetHitNeverAccepted ==
    (~IsNone(vOut) /\ TargetReached(Val(vIn))) =>
        /\ ~Accepted(Val(vOut))
        /\ Val(vOut).raised =>
               Val(vOut).exc \in {"wrong_action", "bad_price_order", "investment_required"}
        /\ ~Val(vOut).raised =>
               Val(vOut).at \in {"budget_too_small", "budget_exceeded", "target_already_hit"}

C6_Witness ==
    /\ ~IsNone(vOut)
    /\ Val(vIn) = [action |-> "Buy", qty |-> None, investmentAmount |-> Some(1000),
                   startingPrice |-> 100, targetSellPrice |-> 110, stopLossPrice |-> 95,
                   bar |-> Some(111)]
    /\ ~Val(vOut).raised
    /\ Val(vOut).at = "target_already_hit"
    /\ ~Val(vOut).goAheadWithTrade

REq(a, b) == a[1] * b[2] = b[1] * a[2]

StopRecomputed(o) == ~o.raised /\ ~IsNone(o.newStopLossPrice)

(* C7: whenever the validator returns a recomputed stop, the stop keeps the *)
(* original risk percentage relative to the new entry, the live price:      *)
(* (newStop - newEntry)/newEntry = (stop - entry)/entry exactly.            *)
C7_StopKeepsRiskPercent ==
    (~IsNone(vOut) /\ StopRecomputed(Val(vOut))) =>
        LET i == Val(vIn)
            o == Val(vOut)
        IN  /\ o.newStartingPrice = R(Val(i.bar))
            /\ REq(RDiv(RSub(Val(o.newStopLossPrice), o.newStartingPrice), o.newStartingPrice),
                   <<i.stopLossPrice - i.startingPrice, i.startingPrice>>)

C7_Witness ==
    /\ ~IsNone(vOut)
    /\ Val(vIn).action = "Sell"
    /\ Val(vIn).startingPrice = 50
    /\ Val(vIn).targetSellPrice = 45
    /\ Val(vIn).stopLossPrice = 53
    /\ Val(vIn).bar = Some(48)
    /\ StopRecomputed(Val(vOut))
    /\ Val(Val(vOut).newStopLossPrice) = <<1272, 25>>

(* the call got as far as line 297 *)
ReachedRiskReward(o) ==
    \/ o.raised /\ o.exc = "postcondition"
    \/ ~o.raised /\ o.at \in {"risk_exceeds_reward", "accept"}

RewardBelowRisk(i) ==
    RLt(RAbs(<<i.targetSellPrice - Val(i.bar), Val(i.bar)>>),
        RAbs(<<i.stopLossPrice - i.startingPrice, i.startingPrice>>))

(* C8: for every input that reaches the risk/reward step, the validator     *)
(* rejects with risk_exceeds_reward exactly when abs((target - latest) /    *)
(* latest) < abs((stop - entry) / entry); every accepted trade has a reward *)
(* percentage at least as large as its risk percentage.                     *)
C8_RejectsIffRiskExceedsReward ==
    (~IsNone(vOut) /\ ReachedRiskReward(Val(vOut))) =>
        LET i == Val(vIn)
            o == Val(vOut)
        IN  /\ (~o.raised /\ o.at = "risk_exceeds_reward") <=> RewardBelowRisk(i)
            /\ Accepted(o) => ~RewardBelowRisk(i)

C8_Witness ==
    /\ ~IsNone(vOut)
    /\ Val(vIn).action = "Buy"
    /\ Val(vIn).startingPrice = 100
    /\ Val(vIn).targetSellPrice = 110
    /\ Val(vIn).stopLossPrice = 95
    /\ Val(vIn).bar = Some(105)
    /\ ~Val(vOut).raised
    /\ Val(vOut).at = "risk_exceeds_reward"
    /\ ~Val(vOut).goAheadWithTrade

----------------------------------------------------------------------------
(* Properties of the hedge orders *)

(* the running call has had a hedge order accepted *)
HedgeSubmitted ==
    \/ fn = "submit_order" /\ ~IsNone(trailing_stop_order)
    \/ /\ fn = "open_oco_position"
       /\ pc = "done"
       /\ result.kind = "return"
       /\ ~IsNone(result.value)

HedgeOrder ==
    IF fn = "submit_order" THEN orders[Val(trailing_stop_order)]
    ELSE orders[Val(result.value)]

(* C9: the quantity of every hedge order (trailing-stop or OCO) is at most  *)
(* the absolute value of the position the hedge builder read for the        *)
(* symbol, and equals the parent's filled quantity when the position is at  *)
(* least that large.                                                        *)
C9_HedgeQuantityCapped ==
    HedgeSubmitted =>
        LET held == Abs(int(Val(openPosition)))
            filled == int(Val(parentOrder).filled_qty)
        IN  /\ int(HedgeOrder.qty) <= held
            /\ held >= filled => int(HedgeOrder.qty) = filled

C9_Witness ==
    /\ HedgeSubmitted
    /\ Abs(int(Val(openPosition))) < int(Val(parentOrder).filled_qty)
    /\ int(Val(openPosition)) < 0
    /\ int(HedgeOrder.qty) = Abs(int(Val(openPosition)))

(* abs(newStop - newEntry) / newEntry * 100 of the accepted verdict *)
RiskPercent ==
    LET newStop == Val(Val(verdict).newStopLossPrice)
        newEntry == Val(verdict).newStartingPrice
        distance == IF RLt(newStop, newEntry) THEN RSub(newEntry, newStop)
                    ELSE RSub(newStop, newEntry)
    IN  RDiv(RMul(distance, R(100)), newEntry)

(* C10: for every accepted TrailingStop trade the trailing percent equals   *)
(* max(abs(newStop - newEntry) / newEntry * 100, 0.1), so it is never below *)
(* 0.1, and it is the percent the hedge order is submitted with.            *)
C10_TrailingPercentFloored ==
    (fn = "submit_order" /\ args.trade_order_type = "TrailingStop" /\ ~IsNone(order)) =>
        LET percent == Val(trailing_percent.value)
        IN  /\ trailing_percent.bound
            /\ RLe(<<1, 10>>, percent)
            /\ REq(percent, IF RLt(RiskPercent, <<1, 10>>) THEN <<1, 10>> ELSE RiskPercent)
            /\ ~IsNone(trailing_stop_order) =>
                   orders[Val(trailing_stop_order)].trail_percent = Some(percent)

C10_Witness ==
    /\ fn = "submit_order"
    /\ args.trade_order_type = "TrailingStop"
    /\ ~IsNone(trailing_stop_order)
    /\ RLt(RiskPercent, <<1, 10>>)
    /\ orders[Val(trailing_stop_order)].trail_percent = Some(<<1, 10>>)


----------------------------------------------------------------------------
(* Quantity and budget *)

(* the largest number of whole shares the budget buys at the price *)
WholeShares(amount, price) ==
    CHOOSE q \in 0..amount : q * price <= amount /\ amount < (q + 1) * price

QuantityDerived(i) ==
    IsNone(i.qty) /\ ~IsNone(i.investmentAmount) /\ ~IsNone(i.bar)

(* C11: with the quantity unspecified the validator derives                 *)
(* floor(budget / live price), from the live price and not from the         *)
(* expected entry; a derived quantity of zero is a rejection               *)
(* (budget_too_small) and not an error, any other derived quantity is the   *)
(* one returned; Buy 100/110/95 with budget 1000 at live price 100 is       *)
(* accepted with quantity 10 and stop 95.                                   *)
C11_QuantityDerivedFromLivePrice ==
    (~IsNone(vOut) /\ QuantityDerived(Val(vIn))) =>
        LET i == Val(vIn)
            o == Val(vOut)
            shares == WholeShares(Val(i.investmentAmount), Val(i.bar))
        IN  /\ ~o.raised => o.newQuantity = shares
            /\ ~o.raised => (shares = 0 <=> o.at = "budget_too_small")
            /\ (~o.raised /\ shares = 0) => ~o.goAheadWithTrade
            /\ (o.raised /\ shares = 0) => o.exc \in {"wrong_action", "bad_price_order"}
            /\ (/\ i.action = "Buy" /\ i.startingPrice = 100 /\ i.targetSellPrice = 110
                /\ i.stopLossPrice = 95 /\ i.investmentAmount = Some(1000)
                /\ i.bar = Some(100)) =>
                   /\ Accepted(o)
                   /\ o.newQuantity = 10
                   /\ o.newStopLossPrice = Some(R(95))

C11_Witness ==
    /\ ~IsNone(vOut)
    /\ QuantityDerived(Val(vIn))
    /\ Val(vIn).startingPrice = 100
    /\ Val(vIn).bar = Some(105)
    /\ Val(vIn).investmentAmount = Some(1000)
    /\ Accepted(Val(vOut))
    /\ Val(vOut).newQuantity = 9

(* C12: a quantity of 0 is treated as an unspecified one: the whole budget  *)
(* is used, the resulting quantity is floor(budget / live price), and no    *)
(* trade of 0 shares is accepted.                                           *)
C12_ZeroQuantityUsesBudget ==
    (~IsNone(vOut) /\ Val(vIn).qty = Some(0) /\ ~Val(vOut).raised) =>
        /\ Val(vOut).newQuantity =
               WholeShares(Val(Val(vIn).investmentAmount), Val(Val(vIn).bar))
        /\ ~(Val(vOut).goAheadWithTrade /\ Val(vOut).newQuantity = 0)


(* the entry order of the running submit_order call is about to be sent *)
SubmittingEntry == fn = "submit_order" /\ pc = "so_submit"

(* C13: every entry order submit_order sends has a whole quantity of at     *)
(* least 1 whose cost at the live price is within the budget, whatever      *)
(* quantity (None, 0, positive) and budget the caller gave.                 *)
C13_EntryQuantityPositiveWithinBudget ==
    SubmittingEntry =>
        LET v == Val(verdict)
        IN  /\ v.newQuantity \in Nat
            /\ v.newQuantity >= 1
            /\ RLe(RMul(R(v.newQuantity), v.newStartingPrice),
                   R(Val(args.investmentAmount)))

----------------------------------------------------------------------------
(* Outcomes of submit_order *)

EntryPlaced(type) ==
    /\ fn = "submit_order"
    /\ pc = "done"
    /\ args.trade_order_type = type
    /\ ~IsNone(order)

(* C14: for Market and for Bracket, once the guards passed, the validator   *)
(* accepted and the brokerage accepted the entry order, submit_order ends   *)
(* by returning the order with the final prices and quantity, and not in an *)
(* error after the order was placed.                                        *)
C14_MarketAndBracketEndDone ==
    (EntryPlaced("Market") \/ EntryPlaced("Bracket")) =>
        /\ result.kind = "return"
        /\ ~IsNone(result.value)
        /\ Val(result.value).order = Val(order)
        /\ Val(result.value).newQuantity = Val(verdict).newQuantity

----------------------------------------------------------------------------
(* Preconditions of a hedge *)

ParentChecked ==
    /\ ~IsNone(parentOrder)
    /\ Val(parentOrder).symbol = args.symbol
    /\ int(Val(parentOrder).filled_qty) # 0
    /\ Val(parentOrder).status = "filled"

(* open_oco_position ended without a parent order that passed the checks,   *)
(* and the request for the parent order was not lost on the way             *)
HedgeRefused ==
    /\ fn = "open_oco_position"
    /\ pc = "done"
    /\ IsNone(parentOrder)
    /\ result # Raise("ConnectionError")

(* C15: a hedge order is submitted only if the parent order exists, has the *)
(* requested symbol, a nonzero filled quantity and status 'filled'; every   *)
(* violated precondition, a missing parent order included, ends the hedge   *)
(* operation as a rejection (None returned, nothing submitted), not as an   *)
(* error.                                                                   *)
C15_HedgePreconditionsReject ==
    /\ pc \in {"hedge_get_position", "hedge_submit"} => ParentChecked
    /\ HedgeRefused => result = Return(None)


----------------------------------------------------------------------------
(* Validation before submission *)

SoftRejected ==
    /\ fn = "submit_order"
    /\ ~IsNone(verdict)
    /\ ~Val(verdict).goAheadWithTrade

(* C18: in submit_order an order is submitted to the brokerage only after   *)
(* the validator has accepted; whenever the validator returns a soft        *)
(* rejection the call ends at once with None and neither an entry nor a     *)
(* hedge order is submitted for that trade.                                 *)
C18_SubmissionOnlyAfterAcceptance ==
    /\ [](SoftRejected =>
            /\ pc = "done"
            /\ result = Return(None)
            /\ IsNone(order)
            /\ IsNone(trailing_stop_order))
    /\ [][(fn = "submit_order" /\ Len(orders') > Len(orders)) =>
            (~IsNone(verdict) /\ Val(verdict).goAheadWithTrade)]_vars

C18_Witness ==
    /\ SoftRejected
    /\ pc = "done"
    /\ Val(verdict).at = "target_already_hit"
    /\ orders = <<>>


----------------------------------------------------------------------------
(* Fatal errors *)

FatalErrors == {"wrong_action", "bad_price_order", "investment_required"}

FatalRaised ==
    /\ fn = "submit_order"
    /\ pc = "done"
    /\ result.kind = "raise"
    /\ result.exc \in FatalErrors

(* C19: an action that is neither Buy nor Sell, a price ordering that is    *)
(* malformed for the action, and a missing budget are raised before any     *)
(* request is sent to the brokerage for that trade, and no order is         *)
(* submitted.                                                               *)
C19_FatalErrorsBeforeBrokerage ==
    FatalRaised => (brokerage_calls = <<>> /\ IsNone(order))


(* C20: a trade whose action is Noaction is soft-rejected by the validator, *)
(* a "do not trade" decision with reason no_action, and does not fail with  *)
(* an error.                                                                *)
C20_NoactionSoftRejected ==
    (/\ ~IsNone(vOut)
     /\ Val(vIn).action = "Noaction"
     /\ ~IsNone(Val(vIn).investmentAmount)
     /\ ~IsNone(Val(vIn).bar)) =>
        /\ ~Val(vOut).raised
        /\ ~Val(vOut).goAheadWithTrade
        /\ Val(vOut).at = "no_action"


----------------------------------------------------------------------------
(* The batch report *)

(* the brokerage accepted an entry order that the batch runner asked for *)
BatchEntryAccepted(symbol) ==
    \E i \in 1..Len(orders) :
        /\ orders[i].symbol = symbol
        /\ orders[i].type = "market"
        /\ orders[i].client_order_id \in
               {Some(ClientOrderId(symbol, a)) : a \in {"Buy", "Sell"}}

ReportedSubmitted(symbol) ==
    \E i \in 1..Len(symbols_submitted) : symbols_submitted[i] = symbol

(* C17: at the end of the batch the list of submitted symbols contains a    *)
(* symbol if and only if the brokerage accepted an entry order for that     *)
(* symbol during the batch, for every order type.                           *)
C17_ReportListsAcceptedEntries ==
    report => \A symbol \in Symbols : ReportedSubmitted(symbol) <=> BatchEntryAccepted(symbol)


----------------------------------------------------------------------------
(* Failure isolation in the batch *)

BatchAborted ==
    /\ fn = "submit_my_latest_trade_picks"
    /\ pc = "done"
    /\ result.kind = "raise"

(* C16: in a batch entry point no failure of a single symbol (an exception  *)
(* from the pick source, the brokerage or the validator, a malformed pick   *)
(* record, a rejection) aborts the batch: the records are taken one by one  *)
(* in order and the end-of-batch report is reached only after the last one. *)
C16_BatchFailureIsolation ==
    /\ ~BatchAborted
    /\ idx <= Len(batch)
    /\ report => idx = Len(batch)
    /\ Len(symbols_submitted) <= idx


----------------------------------------------------------------------------
(* Unwinding the entry order *)

Requested(request) ==
    \E i \in 1..Len(brokerage_calls) : brokerage_calls[i] = request

(* a TrailingStop call of submit_order is over and its entry order had been *)
(* accepted by the brokerage                                                *)
TrailingStopEnded ==
    /\ fn = "submit_order"
    /\ args.trade_order_type = "TrailingStop"
    /\ pc = "done"
    /\ ~IsNone(order)

(* C21: when the cancel of the entry order fails after the hedge attempts   *)
(* are exhausted, the failure is handled inside submit_order: the call      *)
(* still completes by returning its outcome and the cancel error does not   *)
(* leave it as an exception.                                                *)
C21_CancelFailureHandled ==
    (TrailingStopEnded /\ Requested("cancel_order")) => result.kind = "return"

(* C29: whenever a TrailingStop call of submit_order ends, by returning or  *)
(* by raising, after its entry order was accepted, a trailing-stop hedge    *)
(* order was accepted or a cancel of the entry order was issued; an         *)
(* exception inside a hedge attempt does not leave the entry order neither  *)
(* hedged nor cancelled.                                                    *)
C29_EntryHedgedOrCancelled ==
    TrailingStopEnded => (~IsNone(trailing_stop_order) \/ Requested("cancel_order"))

(* C30: every order submitted for a trade carries a client-assigned token:  *)
(* the entry order carries client_order_id and the trailing-stop hedge      *)
(* order carries client_order_id + '_trailstop'.                            *)
C30_OrdersCarryClientToken ==
    (fn = "submit_order" /\ ~IsNone(order)) =>
        /\ orders[Val(order)].client_order_id = Some(args.client_order_id)
        /\ ~IsNone(trailing_stop_order) =>
               orders[Val(trailing_stop_order)].client_order_id =
                   Some(args.client_order_id \o <<"_trailstop">>)


----------------------------------------------------------------------------
(* The market clock *)

(* C22: for order type TrailingStop the market-open check is the first      *)
(* brokerage request of the trade, and when the clock reports the market    *)
(* closed submit_order ends with None having made no other request and      *)
(* submitted no order.                                                      *)
C22_MarketClosedNoOrder ==
    (fn = "submit_order" /\ args.trade_order_type = "TrailingStop") =>
        /\ brokerage_calls # <<>> => brokerage_calls[1] = "get_clock"
        /\ guardSaw.market_closed =>
               /\ pc = "done"
               /\ result = Return(None)
               /\ brokerage_calls = <<"get_clock">>
               /\ IsNone(order)
               /\ IsNone(trailing_stop_order)

C22_Witness ==
    /\ fn = "submit_order"
    /\ args.trade_order_type = "TrailingStop"
    /\ args.action = "Buy"
    /\ guardSaw.market_closed
    /\ result = Return(None)
    /\ orders = <<>>


----------------------------------------------------------------------------
(* The ordering re-check of the validator *)

(* the inputs pass the preconditions of lines 252-257 *)
WellFormed(i) ==
    PreconditionError(i.action, i.startingPrice, i.targetSellPrice, i.stopLossPrice) = "ok"

(* C26: for inputs with positive prices that satisfy the preconditions, the *)
(* re-check of the price ordering after the recomputation never raises:     *)
(* whenever the target was not reached and the risk does not exceed the     *)
(* reward, newStop < newEntry < target holds for Buy and                    *)
(* target < newEntry < newStop for Sell, and the trade is accepted.         *)
C26_PostconditionUnreachable ==
    (~IsNone(vOut) /\ WellFormed(Val(vIn))) =>
        LET i == Val(vIn)
            o == Val(vOut)
        IN  /\ o.raised => o.exc # "postcondition"
            /\ (~o.raised /\ o.at \notin {"budget_too_small", "budget_exceeded",
                                          "target_already_hit", "no_action",
                                          "risk_exceeds_reward"}) =>
                   /\ o.goAheadWithTrade
                   /\ o.newStartingPrice = R(Val(i.bar))
                   /\ i.action = "Buy" =>
                          /\ RLt(Val(o.newStopLossPrice), o.newStartingPrice)
                          /\ RLt(o.newStartingPrice, Val(o.newTargetPrice))
                   /\ i.action = "Sell" =>
                          /\ RLt(Val(o.newTargetPrice), o.newStartingPrice)
                          /\ RLt(o.newStartingPrice, Val(o.newStopLossPrice))

C26_Witness ==
    /\ ~IsNone(vOut)
    /\ WellFormed(Val(vIn))
    /\ Val(vIn).action = "Sell"
    /\ Val(vIn).startingPrice = 50
    /\ Val(vIn).bar = Some(48)
    /\ ~Val(vOut).raised
    /\ Val(vOut).goAheadWithTrade
    /\ RLt(R(48), Val(Val(vOut).newStopLossPrice))


----------------------------------------------------------------------------
(* The side of a hedge *)

(* C27: every hedge order, OCO or trailing-stop, is submitted for the       *)
(* symbol of its parent order and on the opposite side: a buy parent gets a *)
(* sell hedge and a sell parent a buy hedge, never the parent's own side.   *)
C27_HedgeSideFlipped ==
    HedgeSubmitted =>
        LET parent == Val(parentOrder)
        IN  /\ HedgeOrder.symbol = parent.symbol
            /\ parent.side = "buy" => HedgeOrder.side = "sell"
            /\ parent.side = "sell" => HedgeOrder.side = "buy"
            /\ HedgeOrder.side # parent.side
            /\ fn = "submit_order" =>
                   /\ parent.symbol = orders[Val(order)].symbol
                   /\ parent.side = orders[Val(order)].side
                   /\ HedgeOrder.type = "trailing_stop"
            /\ fn = "open_oco_position" => HedgeOrder.order_class = "oco"

C27_Witness ==
    /\ fn = "submit_order"
    /\ ~IsNone(trailing_stop_order)
    /\ Val(parentOrder).side = "sell"
    /\ orders[Val(trailing_stop_order)].side = "buy"
    /\ orders[Val(trailing_stop_order)].symbol = Val(parentOrder).symbol


----------------------------------------------------------------------------
(* One TrailingStop call of submit_order run to its end,                    *)
(* alpaca_api_wrapper.py:98-137. The interpreter executes the statements of *)
(* the call one after the other, so a step of the call that can be taken is *)
(* taken; the brokerage and the world around it owe nothing.                *)

InitRetry ==
    /\ InitBroker(<<>>)
    /\ InitFrame
    /\ InitBatch("TrailingStop")
    /\ vIn = None
    /\ vOut = None

(* the next statement of the running call *)
CallStep ==
    \/ CheckClock
    \/ CheckPosition
    \/ CheckHistory
    \/ Validate
    \/ SubmitEntry
    \/ HedgeGetOrder
    \/ HedgeGetPosition
    \/ HedgeSubmit
    \/ CancelEntry
    \/ ReturnResult

NextRetry ==
    \/ DirectSubmitOrder
    \/ DirectResume
    \/ CheckClock
    \/ CheckPosition
    \/ CheckHistory
    \/ Validate
    \/ SubmitEntry
    \/ HedgeGetOrder
    \/ HedgeGetPosition
    \/ HedgeSubmit
    \/ CancelEntry
    \/ ReturnResult
    \/ FillPartial
    \/ FillFull
    \/ ExternalChange
    \/ Tick

SpecRetry == InitRetry /\ [][NextRetry]_vars /\ WF_vars(CallStep)

----------------------------------------------------------------------------
(* The retry protocol of a TrailingStop call *)

RetryCall == fn = "submit_order" /\ args.trade_order_type = "TrailingStop"

InHedgeAttempt == pc \in {"hedge_get_order", "hedge_get_position", "hedge_submit"}

(* attempt counts the attempts that returned None; the one running is the   *)
(* next one                                                                 *)
RetryBounded ==
    RetryCall =>
        /\ attempt \in 0..5
        /\ InHedgeAttempt =>
               /\ attempt < 5
               /\ ~IsNone(order)
               /\ IsNone(trailing_stop_order)
               /\ ~Requested("cancel_order")
        /\ (pc = "so_cancel" \/ Requested("cancel_order")) =>
               /\ attempt = 5
               /\ ~IsNone(order)
               /\ IsNone(trailing_stop_order)
        /\ ~IsNone(trailing_stop_order) =>
               /\ pc \in {"so_return", "done"}
               /\ ~Requested("cancel_order")
               /\ ~IsNone(order)
               /\ Val(order) # Val(trailing_stop_order)
               /\ orders[Val(trailing_stop_order)].type = "trailing_stop"
        /\ ~IsNone(order) => orders[Val(order)].type = "market"

(* the call places an order: its entry, once, or its hedge, once, which     *)
(* ends the attempts                                                        *)
OrderPlacedOnce ==
    (RetryCall /\ Len(orders') # Len(orders)) =>
        /\ Len(orders') = Len(orders) + 1
        /\ \/ /\ IsNone(order)
              /\ attempt = 0
              /\ order' = Some(Len(orders'))
              /\ orders'[Len(orders')].type = "market"
              /\ IsNone(trailing_stop_order')
           \/ /\ ~IsNone(order)
              /\ order' = order
              /\ IsNone(trailing_stop_order)
              /\ trailing_stop_order' = Some(Len(orders'))
              /\ orders'[Len(orders')].type = "trailing_stop"
              /\ pc' = "so_return"

(* C28: one TrailingStop call of submit_order submits one entry order,      *)
(* makes at most 5 attempts to attach the hedge, stops at the first attempt *)
(* that succeeds so that at most one trailing-stop order is submitted for   *)
(* the entry, cancels the entry only when no attempt succeeded and never    *)
(* after a hedge was accepted, and always comes to an end.                  *)
C28_BoundedRetryTerminates ==
    /\ []RetryBounded
    /\ [][OrderPlacedOnce]_vars
    /\ (RetryCall ~> pc = "done")

C28_Witness ==
    /\ RetryCall
    /\ pc = "done"
    /\ attempt = 5
    /\ Requested("cancel_order")
    /\ result.kind = "return"
    /\ orders[Val(order)].status = "canceled"


----------------------------------------------------------------------------
(* The filters of the batch runners *)

(* the pick the running submit_order call of the "my picks" runner is for *)
MyRunningPick == Val(batch[idx].pick)

(* the thresholds of the batch entry point, lines 162-165 *)
DefaultFilters == BatchConfig(config.trade_order_type)

(* C23: a batch runner calls submit_order for a pick if and only if the     *)
(* pick passes the four filters (absolute expected change at least the      *)
(* threshold, action in the allowed set, average uncertainty at most the    *)
(* threshold, historical average ROI at least the threshold); no order is   *)
(* submitted for a pick that fails one of them.                             *)
C23_OnlyMatchingPicksSubmitted ==
    (fn = "submit_order" /\ caller = "my_batch") =>
        MatchesFilters(MyRunningPick, DefaultFilters)


----------------------------------------------------------------------------
(* The reason of a rejection *)

(* the last request the ended call made to the brokerage *)
LastRequest == brokerage_calls[Len(brokerage_calls)]

EndedWithReturn ==
    /\ fn = "submit_order"
    /\ pc = "done"
    /\ result.kind = "return"
    /\ brokerage_calls # <<>>

(* line 54: what submit_order returns when the symbol is already held *)
AlreadyHoldingOutcome == Return(None)

(* lines 60-61 and 65-67: rejected by the day-trade guard or by the validator *)
RejectedLater ==
    /\ EndedWithReturn
    /\ \/ LastRequest = "list_orders"
       \/ SoftRejected

(* C24: the outcome a caller gets tells the reason of a soft rejection: a   *)
(* trade rejected by the day-trade guard or by the validator (budget too    *)
(* small, budget exceeded, target already hit, risk exceeds reward) never   *)
(* ends with the same return value as a trade rejected because the symbol   *)
(* is already held.                                                         *)
C24_RejectionReasonsDistinguishable ==
    RejectedLater => result # AlreadyHoldingOutcome


----------------------------------------------------------------------------
(* The sample script samples/autotrader_daily.py calling                    *)
(* submit_latest_trade_picks, predicto_api_wrapper.py:161-168               *)

(* lines 162-168: the parameters of submit_latest_trade_picks besides self *)
Parameters ==
    {"abs_change_pct_threshold", "actions", "average_uncertainty", "model_avg_roi",
     "symbols", "investment_per_trade", "trade_order_type"}

(* autotrader_daily.py:32-40, and the same call without its last keyword *)
SampleKeywords ==
    { Parameters,
      Parameters \cup {"stoploss_fixed_pct"} }

(* the values the comment of autotrader_daily.py:27 describes *)
StopLossFixedPcts == {None, Some(<<1, 50>>)}

(* Python binds the keywords to the parameters before the body runs; a     *)
(* keyword that names no parameter is a TypeError                           *)
UnexpectedKeywords(keywords) == keywords \ Parameters

(* autotrader_daily.py:32-40 *)
CallSubmitLatestTradePicks ==
    /\ pc = "script"
    /\ caller' = "script"
    /\ IF UnexpectedKeywords(args.keywords) # {}
       THEN /\ fn' = "submit_latest_trade_picks"
            /\ Finish(Raise("TypeError"))
       ELSE /\ pc' = "idle"
            /\ UNCHANGED <<fn, result>>
    /\ UNCHANGED <<args, verdict, trailing_percent, order, trailing_stop_order, attempt,
                   parentOrder, openPosition, safeguardQty, guardSaw, brokerage_calls>>
    /\ UNCHANGED <<brokerVars, batchVars, validatorVars>>

InitSample ==
    /\ InitBroker(<<>>)
    /\ pc = "script"
    /\ fn = "none"
    /\ caller = "none"
    /\ \E keywords \in SampleKeywords, pct \in StopLossFixedPcts :
        /\ "stoploss_fixed_pct" \notin keywords => pct = None
        /\ args = [keywords |-> keywords, stoploss_fixed_pct |-> pct]
    /\ verdict = None
    /\ trailing_percent = Unbound
    /\ order = None
    /\ trailing_stop_order = None
    /\ attempt = 0
    /\ parentOrder = None
    /\ openPosition = None
    /\ safeguardQty = None
    /\ result = None
    /\ guardSaw = NoGuard
    /\ brokerage_calls = <<>>
    /\ \E type \in TradeOrderTypes : InitBatch(type)
    /\ vIn = None
    /\ vOut = None

NextSample ==
    \/ CallSubmitLatestTradePicks
    \/ BatchSkip
    \/ BatchSubmit
    \/ BatchResume
    \/ BatchReport
    \/ CheckClock
    \/ CheckPosition
    \/ CheckHistory
    \/ Validate
    \/ SubmitEntry
    \/ HedgeGetOrder
    \/ HedgeGetPosition
    \/ HedgeSubmit
    \/ CancelEntry
    \/ ReturnResult
    \/ FillPartial
    \/ FillFull
    \/ ExternalChange
    \/ Tick

SpecSample == InitSample /\ [][NextSample]_vars

----------------------------------------------------------------------------
(* The fixed stop-loss override *)

CalledWithOverride ==
    /\ caller = "script"
    /\ fn \in {"none", "submit_latest_trade_picks"}
    /\ "stoploss_fixed_pct" \in args.keywords

(* C25: submit_latest_trade_picks accepts the optional keyword              *)
(* stoploss_fixed_pct: with None the batch runs with the stops of the       *)
(* picks, with a percentage the batch runs with the stop at that fixed      *)
(* percentage from the entry (below it for a Buy, above it for a Sell).     *)
C25_FixedStopLossOverrideAccepted ==
    CalledWithOverride => ~(pc = "done" /\ result = Raise("TypeError"))

====
